---- MODULE Spec2Model ----
(***************************************************************************)
(* Model of src/main.c: the YUV420P frame reader (read_yuv420p_frame), the  *)
(* buffer/file helpers (open_yuv_file, close_yuv_file) and the encode loop  *)
(* of main with its setup and teardown.                                     *)
(*                                                                          *)
(* The input stream is a byte count with a position, the sticky end-of-file *)
(* indicator and the number of I/O errors that struck it.  The GPU and the  *)
(* encoder are external: every call into them returns a nondeterministic    *)
(* outcome.                                                                 *)
(***************************************************************************)
EXTENDS Integers, Sequences, FiniteSets, TLC

\* ---------------------------------------------------------------- bounds
\* gettimeofday returns one of 0..MaxClock
MaxClock == 1
\* the unreadable part of a damaged input file starts in frame 0..MaxBadFrame
MaxBadFrame == 1
\* elapsed seconds between the two clock_gettime calls: 0..MaxElapsed
MaxElapsed == 1
\* size in bytes of the output file as stat reports it: 0..MaxSize
MaxSize == 1
\* streams of 0..MaxShortStream full frames are tried with every tail
MaxShortStream == 3
\* a stream that ends after the second keyframe position
MidStream == 31
\* the longest stream, at least as long as the frame limit
MaxStreamFrames == 100
\* how many fread calls of a run may fail with an I/O error
MaxIoErrors == 1
\* reader specification: geometries and stream lengths tried
MaxW == 4
MaxH == 3
MaxBytes == 37

\* ------------------------------------------------------- program constants
max_frames == 100
keyframe_interval == 30

Min(a, b) == IF a < b THEN a ELSE b

Planes == {"Y", "U", "V"}
Res == {"fp", "y", "u", "v", "gpu", "enc"}

\* ------------------------------------------------------------- the reader
\* int y_size = width * height;
y_size(w, h) == w * h
\* chroma planes of half the luma size (4:2:2) instead of a quarter
chroma_size_half(w, h) == y_size(w, h) \div 2

\* int u_size = y_size / 4;  int v_size = y_size / 4;
chroma_size(w, h) == y_size(w, h) \div 4
\* bytes one successful read_yuv420p_frame consumes
frame_bytes(w, h) == y_size(w, h) + chroma_size(w, h) + chroma_size(w, h)

\* fread(buf, 1, n, fp) on the stream st = [len, pos, eof, errs, bad, hard].
\* fail: this call is struck by a transient I/O error (nothing transferred,
\* the error indicator is set, the end-of-file indicator is not).
\* The bytes from offset st.bad on are unreadable (st.bad = st.len: none are):
\* a call that needs one of them transfers the bytes before st.bad and fails
\* with an I/O error, as does every later call; st.hard counts these errors.
Fread(st, n, fail) ==
    IF n = 0 THEN [got |-> 0, st |-> st]
    ELSE IF fail THEN [got |-> 0, st |-> [st EXCEPT !.errs = @ + 1]]
    ELSE IF st.bad < st.len /\ st.pos + n > st.bad
    THEN [got |-> st.bad - st.pos,
          st  |-> [st EXCEPT !.pos = st.bad, !.errs = @ + 1, !.hard = @ + 1]]
    ELSE LET got == Min(n, st.len - st.pos)
         IN  [got |-> got,
              st  |-> [st EXCEPT !.pos = @ + got, !.eof = @ \/ (got < n)]]

\* no fread call was made
NoBytes == [y |-> 0, u |-> 0, v |-> 0]

\* read_yuv420p_frame: ret, the stream afterwards and the plane whose fread
\* came back short ("none" when all three were filled); asked: the size each
\* fread that was called asked for, wrote: the bytes it stored in the buffer.
\* errPlane: the plane whose fread is struck by an I/O error, or "none".
read_yuv420p_frame(st, w, h, fpOk, yOk, uOk, vOk, errPlane) ==
    IF ~fpOk \/ ~yOk \/ ~uOk \/ ~vOk
    THEN [ret |-> -1, st |-> st, plane |-> "none",
          asked |-> NoBytes, wrote |-> NoBytes]
    ELSE
    LET ry == Fread(st, y_size(w, h), errPlane = "Y")
        ru == Fread(ry.st, chroma_size(w, h), errPlane = "U")
        rv == Fread(ru.st, chroma_size(w, h), errPlane = "V")
    IN  IF ry.got # y_size(w, h)
        THEN [ret |-> -1, st |-> ry.st, plane |-> "Y",
              asked |-> [y |-> y_size(w, h), u |-> 0, v |-> 0],
              wrote |-> [y |-> ry.got, u |-> 0, v |-> 0]]
        ELSE IF ru.got # chroma_size(w, h)
        THEN [ret |-> -1, st |-> ru.st, plane |-> "U",
              asked |-> [y |-> y_size(w, h), u |-> chroma_size(w, h), v |-> 0],
              wrote |-> [y |-> ry.got, u |-> ru.got, v |-> 0]]
        ELSE IF rv.got # chroma_size(w, h)
        THEN [ret |-> -1, st |-> rv.st, plane |-> "V",
              asked |-> [y |-> y_size(w, h), u |-> chroma_size(w, h),
                         v |-> chroma_size(w, h)],
              wrote |-> [y |-> ry.got, u |-> ru.got, v |-> rv.got]]
        ELSE [ret |-> 0, st |-> rv.st, plane |-> "none",
              asked |-> [y |-> y_size(w, h), u |-> chroma_size(w, h),
                         v |-> chroma_size(w, h)],
              wrote |-> [y |-> ry.got, u |-> ru.got, v |-> rv.got]]

\* a classification by the plane that came back short, not by feof(fp)
ReadOutcomeByPlane(r) ==
    IF r.ret = 0 THEN "FrameRead"
    ELSE IF r.plane = "Y" THEN "EndOfStream"
    ELSE "ReadError"

\* a classification that takes every failed read for the end of the stream
ReadOutcomeAlwaysEnd(r) ==
    IF r.ret = 0 THEN "FrameRead" ELSE "EndOfStream"

\* a classification without the feof(fp) test
ReadOutcomeNoFeof(r) ==
    IF r.ret = 0 THEN "FrameRead" ELSE "ReadError"

\* main's classification of a read result: ret != 0 and feof(fp) is the end
\* of the stream, ret != 0 otherwise is a failed frame.
ReadOutcome(r) ==
    IF r.ret = 0 THEN "FrameRead"
    ELSE IF r.st.eof THEN "EndOfStream"
    ELSE "ReadError"

\* --------------------------------------------------- buffers and the file
\* chroma buffers of (width/2)*(height/2) bytes
alloc_sizes_by_dims(w, h) ==
    [y |-> w * h, u |-> (w \div 2) * (h \div 2), v |-> (w \div 2) * (h \div 2)]

\* the sizes open_yuv_file passes to malloc:
\* int y_size = width * height; int u_size = y_size / 4; int v_size = y_size / 4;
alloc_sizes(w, h) ==
    [y |-> w * h, u |-> (w * h) \div 4, v |-> (w * h) \div 4]

Bump(f, S) == [x \in DOMAIN f |-> IF x \in S THEN f[x] + 1 ELSE f[x]]

\* open_yuv_file whose failure path closes the file but frees no buffer
open_yuv_file_leaks(fopenOk, yOk, uOk, vOk, acq, rel) ==
    IF ~fopenOk
    THEN [ret |-> -1, fp |-> FALSE, y |-> FALSE, u |-> FALSE, v |-> FALSE,
          acq |-> acq, rel |-> rel]
    ELSE
    LET got == {"fp"} \cup (IF yOk THEN {"y"} ELSE {})
                      \cup (IF uOk THEN {"u"} ELSE {})
                      \cup (IF vOk THEN {"v"} ELSE {})
    IN  IF ~yOk \/ ~uOk \/ ~vOk
        THEN [ret |-> -1, fp |-> TRUE, y |-> yOk, u |-> uOk, v |-> vOk,
              acq |-> Bump(acq, got), rel |-> Bump(rel, {"fp"})]
        ELSE [ret |-> 0, fp |-> TRUE, y |-> TRUE, u |-> TRUE, v |-> TRUE,
              acq |-> Bump(acq, got), rel |-> rel]

\* open_yuv_file: fopen, three mallocs, on a failed malloc free what was
\* allocated and fclose.  Pointers are modelled by "is not NULL".
open_yuv_file(fopenOk, yOk, uOk, vOk, acq, rel) ==
    IF ~fopenOk
    THEN [ret |-> -1, fp |-> FALSE, y |-> FALSE, u |-> FALSE, v |-> FALSE,
          acq |-> acq, rel |-> rel]
    ELSE
    LET got == {"fp"} \cup (IF yOk THEN {"y"} ELSE {})
                      \cup (IF uOk THEN {"u"} ELSE {})
                      \cup (IF vOk THEN {"v"} ELSE {})
    IN  IF ~yOk \/ ~uOk \/ ~vOk
        THEN [ret |-> -1, fp |-> TRUE, y |-> yOk, u |-> uOk, v |-> vOk,
              acq |-> Bump(acq, got), rel |-> Bump(rel, got)]
        ELSE [ret |-> 0, fp |-> TRUE, y |-> TRUE, u |-> TRUE, v |-> TRUE,
              acq |-> Bump(acq, got), rel |-> rel]

\* close_yuv_file without the fclose
close_yuv_file_no_fclose(f, y, u, v, rel) ==
    Bump(rel, (IF y THEN {"y"} ELSE {}) \cup (IF u THEN {"u"} ELSE {})
              \cup (IF v THEN {"v"} ELSE {}))

\* close_yuv_file: free the non-NULL buffers, fclose the non-NULL file
close_yuv_file(f, y, u, v, rel) ==
    Bump(rel, (IF y THEN {"y"} ELSE {}) \cup (IF u THEN {"u"} ELSE {})
              \cup (IF v THEN {"v"} ELSE {}) \cup (IF f THEN {"fp"} ELSE {}))

\* GpuContextDestroy / EncodeContextDestroy
GpuContextDestroy(rel) == Bump(rel, {"gpu"})
EncodeContextDestroy(rel) == Bump(rel, {"enc"})

\* ------------------------------------------------------------------ state
VARIABLES
    pc,               \* position in main (or in the reader driver)
    width, height,    \* geometry
    stream,           \* the input file: [len, pos, eof, errs, bad, hard]
    fp, y_data, u_data, v_data,     \* main's pointers: TRUE = not NULL
    gpu_context, encode_context,    \* TRUE = not NULL
    output_fd,        \* "none", "open", "closed"
    acq, rel,         \* per resource: times acquired, times released
    frame_num, encoded_frames, keyframes, failed_frames,
    exit_status,      \* <<>> while running, <<v>> once main returned v
    failedStep,       \* the setup step that failed, "none" otherwise
    readCalls,        \* number of read_yuv420p_frame calls made
    called,           \* which of "read", "ingest", "encode" were ever called
    lastRead,         \* [ret, plane, outcome, asked, wrote] of the latest read call
    kfOk,             \* indices on the keyframe cadence whose encode succeeded
    out,              \* the output file: times opened, times closed
    report,           \* after the loop: [elapsed, fps, stat, size, bitrate]
    stage,            \* calls of the current iteration that succeeded: "idle", "read", "ingested"
    timestamp,        \* main's timestamp: <<t>> from gettimeofday to the encode call, else <<>>
    run2,             \* a second run of main given the same outcomes at other clock readings
    bufSize,          \* the sizes of the y, u and v buffers as allocated
    encoded_frame,    \* EncodeContextGetFrame returned a frame (not NULL)
    scenarioD         \* so far: every read and encode succeeded and exactly
                      \* the ingest calls number 3, 6, 9, ... failed

vars == <<pc, encoded_frame, bufSize, run2, timestamp, stage, report, out, width, height, stream, fp, y_data, u_data, v_data, gpu_context,
          encode_context, output_fd, acq, rel, frame_num, encoded_frames,
          keyframes, failed_frames, exit_status, failedStep, readCalls,
          called, lastRead, kfOk, scenarioD>>

fileVars == <<stream, readCalls, lastRead>>
callVars == <<called>>
ptrVars == <<fp, y_data, u_data, v_data>>
ctxVars == <<gpu_context, encode_context>>
countVars == <<frame_num, encoded_frames, keyframes, failed_frames, kfOk,
               scenarioD>>
geomVars == <<width, height>>

NoRead == [ret |-> 0, plane |-> "none", outcome |-> "none",
           asked |-> NoBytes, wrote |-> NoBytes]
\* the second run before main has done anything
NoRun2 == [frame_num |-> 0, encoded_frames |-> 0, keyframes |-> 0,
           failed_frames |-> 0, timestamp |-> <<>>, elapsed |-> <<>>,
           exit_status |-> <<>>]
\* no statistics computed yet; a double is a pair <<numerator, denominator>>,
\* <<>> is a value that was not computed
NoReport == [elapsed |-> <<>>, fps |-> <<>>, stat |-> "none", size |-> 0,
             bitrate |-> <<>>]

\* lengths of the input file tried for main (3840x2160)
MainFrame == frame_bytes(3840, 2160)
Tails == {0, 1, y_size(3840, 2160), y_size(3840, 2160) + 1,
          y_size(3840, 2160) + chroma_size(3840, 2160),
          y_size(3840, 2160) + chroma_size(3840, 2160) + 1}
StreamLens ==
    {k * MainFrame + t : k \in 0..MaxShortStream, t \in Tails}
    \cup {MidStream * MainFrame,
          MidStream * MainFrame + y_size(3840, 2160) + chroma_size(3840, 2160)}
    \cup {MaxStreamFrames * MainFrame}

\* where the unreadable part of a file of n bytes may start: nowhere (n), at
\* the start of a frame or inside the U plane of a frame
BadFroms(n) ==
    {n} \cup {b \in {k * MainFrame + t : k \in 0..MaxBadFrame,
                                         t \in {0, y_size(3840, 2160) + 1}} : b < n}

Init ==
    /\ pc = "open_yuv"
    /\ width = 3840 /\ height = 2160
    /\ \E n \in StreamLens : \E b \in BadFroms(n) :
         stream = [len |-> n, pos |-> 0, eof |-> FALSE, errs |-> 0,
                   bad |-> b, hard |-> 0]
    /\ fp = FALSE /\ y_data = FALSE /\ u_data = FALSE /\ v_data = FALSE
    /\ gpu_context = FALSE /\ encode_context = FALSE
    /\ output_fd = "none"
    /\ acq = [r \in Res |-> 0] /\ rel = [r \in Res |-> 0]
    /\ frame_num = 0 /\ encoded_frames = 0 /\ keyframes = 0 /\ failed_frames = 0
    /\ exit_status = <<>>
    /\ failedStep = "none"
    /\ readCalls = 0
    /\ called = {}
    /\ lastRead = NoRead
    /\ kfOk = {}
    /\ scenarioD = TRUE
    /\ out = [opens |-> 0, closes |-> 0]
    /\ report = NoReport
    /\ stage = "idle"
    /\ timestamp = <<>>
    /\ run2 = NoRun2
    /\ bufSize = NoBytes
    /\ encoded_frame = FALSE

\* ------------------------------------------------------------ main: setup
\* 1. open_yuv_file(...) != 0 -> return -1
OpenYuv ==
    /\ pc = "open_yuv"
    /\ \E fopenOk \in BOOLEAN, yOk \in BOOLEAN, uOk \in BOOLEAN, vOk \in BOOLEAN :
         LET r == open_yuv_file(fopenOk, yOk, uOk, vOk, acq, rel)
         IN  /\ fp' = r.fp /\ y_data' = r.y /\ u_data' = r.u /\ v_data' = r.v
             /\ acq' = r.acq /\ rel' = r.rel
             /\ bufSize' = IF r.ret = 0 THEN alloc_sizes(width, height)
                           ELSE NoBytes
             /\ IF r.ret # 0
                THEN /\ pc' = "done"
                     /\ exit_status' = <<-1>>
                     /\ run2' = [run2 EXCEPT !.exit_status = <<-1>>]
                     /\ failedStep' = IF fopenOk THEN "malloc" ELSE "fopen"
                ELSE /\ pc' = "gpu_create"
                     /\ UNCHANGED <<exit_status, failedStep, run2>>
    /\ UNCHANGED <<encoded_frame, timestamp, stage, report, out, geomVars, fileVars, callVars, ctxVars, output_fd, countVars>>

\* 2. GpuContextCreate; on NULL close_yuv_file and return -1
GpuCreate ==
    /\ pc = "gpu_create"
    /\ \E ok \in BOOLEAN :
         IF ok
         THEN /\ gpu_context' = TRUE
              /\ acq' = Bump(acq, {"gpu"})
              /\ pc' = "enc_create"
              /\ UNCHANGED <<rel, exit_status, failedStep, run2>>
         ELSE /\ gpu_context' = FALSE
              /\ rel' = close_yuv_file(fp, y_data, u_data, v_data, rel)
              /\ pc' = "done"
              /\ exit_status' = <<-1>>
              /\ run2' = [run2 EXCEPT !.exit_status = <<-1>>]
              /\ failedStep' = "gpu"
              /\ UNCHANGED acq
    /\ UNCHANGED <<encoded_frame, bufSize, timestamp, stage, report, out, geomVars, fileVars, callVars, ptrVars, encode_context, output_fd, countVars>>

\* 3. EncodeContextCreate; on NULL destroy the GPU context, close, return -1
EncCreate ==
    /\ pc = "enc_create"
    /\ \E ok \in BOOLEAN :
         IF ok
         THEN /\ encode_context' = TRUE
              /\ acq' = Bump(acq, {"enc"})
              /\ pc' = "get_frame"
              /\ UNCHANGED <<rel, exit_status, failedStep, run2>>
         ELSE /\ encode_context' = FALSE
              /\ rel' = close_yuv_file(fp, y_data, u_data, v_data,
                                       GpuContextDestroy(rel))
              /\ pc' = "done"
              /\ exit_status' = <<-1>>
              /\ run2' = [run2 EXCEPT !.exit_status = <<-1>>]
              /\ failedStep' = "enc"
              /\ UNCHANGED acq
    /\ UNCHANGED <<encoded_frame, bufSize, timestamp, stage, report, out, geomVars, fileVars, callVars, ptrVars, gpu_context, output_fd, countVars>>

\* step 4 going on to the output file when the surface query returns NULL
GetFrameNullNotFatal ==
    /\ pc = "get_frame"
    /\ \E ok \in BOOLEAN :
         /\ encoded_frame' = ok
         /\ IF ok
            THEN /\ pc' = "open_output"
                 /\ UNCHANGED <<rel, exit_status, failedStep, run2>>
            ELSE /\ pc' = "open_output"
                 /\ UNCHANGED <<rel, exit_status, failedStep, run2>>
    /\ UNCHANGED <<bufSize, timestamp, stage, report, out, geomVars, fileVars, callVars, ptrVars, ctxVars, output_fd, acq, countVars>>

\* 4. EncodeContextGetFrame; on NULL destroy both contexts, close, return -1
GetFrame ==
    /\ pc = "get_frame"
    /\ \E ok \in BOOLEAN :
         /\ encoded_frame' = ok
         /\ IF ok
            THEN /\ pc' = "open_output"
                 /\ UNCHANGED <<rel, exit_status, failedStep, run2>>
            ELSE /\ rel' = close_yuv_file(fp, y_data, u_data, v_data,
                               GpuContextDestroy(EncodeContextDestroy(rel)))
                 /\ pc' = "done"
                 /\ exit_status' = <<-1>>
                 /\ run2' = [run2 EXCEPT !.exit_status = <<-1>>]
                 /\ failedStep' = "frame"
    /\ UNCHANGED <<bufSize, timestamp, stage, report, out, geomVars, fileVars, callVars, ptrVars, ctxVars, output_fd, acq, countVars>>

\* 5. open(output_file, O_CREAT | O_WRONLY | O_TRUNC); on -1 tear down
OpenOutput ==
    /\ pc = "open_output"
    /\ \E ok \in BOOLEAN :
         IF ok
         THEN /\ output_fd' = "open"
              /\ out' = [out EXCEPT !.opens = @ + 1]
              /\ pc' = "loop"
              /\ UNCHANGED <<rel, exit_status, failedStep, run2>>
         ELSE /\ output_fd' = "none"
              /\ UNCHANGED out
              /\ rel' = close_yuv_file(fp, y_data, u_data, v_data,
                            GpuContextDestroy(EncodeContextDestroy(rel)))
              /\ pc' = "done"
              /\ exit_status' = <<-1>>
              /\ run2' = [run2 EXCEPT !.exit_status = <<-1>>]
              /\ failedStep' = "output"
    /\ UNCHANGED <<encoded_frame, bufSize, timestamp, stage, report, geomVars, fileVars, callVars, ptrVars, ctxVars, acq, countVars>>

\* ------------------------------------------------------- main: encode loop
\* the cadence taken on the one-based frame number the progress lines print
is_keyframe_one_based(n) == (n + 1) % keyframe_interval = 0

\* bool is_keyframe = (frame_num % 30 == 0);
is_keyframe(n) == n % keyframe_interval = 0

\* the I/O errors a read call may meet: none, or one fread struck
ErrPlanes == {"none"} \cup Planes

\* LoopRead that reads the same frame again after a read error
LoopReadRetries ==
    /\ pc = "loop"
    /\ frame_num < max_frames
    /\ \E errPlane \in ErrPlanes :
         LET r == read_yuv420p_frame(stream, width, height, fp, y_data,
                                     u_data, v_data, errPlane)
             o == ReadOutcome(r)
         IN  /\ r.st.errs - r.st.hard <= MaxIoErrors
             /\ (errPlane # "none") => (r.st.errs > stream.errs)
             /\ stream' = r.st
             /\ readCalls' = readCalls + 1
             /\ called' = called \cup {"read"}
             /\ lastRead' = [ret |-> r.ret, plane |-> r.plane, outcome |-> o,
                              asked |-> r.asked, wrote |-> r.wrote]
             /\ scenarioD' = (scenarioD /\ o = "FrameRead")
             /\ stage' = IF o = "FrameRead" THEN "read" ELSE "idle"
             /\ CASE o = "FrameRead" ->
                       /\ pc' = "ingest"
                       /\ UNCHANGED <<frame_num, failed_frames>>
                       /\ UNCHANGED run2
                  [] o = "EndOfStream" ->
                       /\ pc' = "loop_end"
                       /\ UNCHANGED <<frame_num, failed_frames>>
                       /\ UNCHANGED run2
                  [] o = "ReadError" ->
                       /\ failed_frames' = failed_frames + 1
                       /\ frame_num' = frame_num
                       /\ run2' = [run2 EXCEPT !.failed_frames = @ + 1]
                       /\ pc' = "loop"
    /\ UNCHANGED <<encoded_frame, bufSize, timestamp, report, out, geomVars, ptrVars, ctxVars, output_fd, acq, rel,
                   encoded_frames, keyframes, kfOk, exit_status, failedStep>>

\* for (...; frame_num < max_frames; ...) { ret = read_yuv420p_frame(...);
\*   if (ret != 0) { if (feof(fp)) break; else { failed_frames++; continue; } }
LoopRead ==
    /\ pc = "loop"
    /\ frame_num < max_frames
    /\ \E errPlane \in ErrPlanes :
         LET r == read_yuv420p_frame(stream, width, height, fp, y_data,
                                     u_data, v_data, errPlane)
             o == ReadOutcome(r)
         IN  /\ r.st.errs - r.st.hard <= MaxIoErrors
             /\ (errPlane # "none") => (r.st.errs > stream.errs)
             /\ stream' = r.st
             /\ readCalls' = readCalls + 1
             /\ called' = called \cup {"read"}
             /\ lastRead' = [ret |-> r.ret, plane |-> r.plane, outcome |-> o,
                              asked |-> r.asked, wrote |-> r.wrote]
             /\ scenarioD' = (scenarioD /\ o = "FrameRead")
             /\ stage' = IF o = "FrameRead" THEN "read" ELSE "idle"
             /\ CASE o = "FrameRead" ->
                       /\ pc' = "ingest"
                       /\ UNCHANGED <<frame_num, failed_frames>>
                       /\ UNCHANGED run2
                  [] o = "EndOfStream" ->
                       /\ pc' = "loop_end"
                       /\ UNCHANGED <<frame_num, failed_frames>>
                       /\ UNCHANGED run2
                  [] o = "ReadError" ->
                       /\ failed_frames' = failed_frames + 1
                       /\ frame_num' = frame_num + 1
                       /\ run2' = [run2 EXCEPT !.failed_frames = @ + 1,
                                               !.frame_num = @ + 1]
                       /\ pc' = "loop"
    /\ UNCHANGED <<encoded_frame, bufSize, timestamp, report, out, geomVars, ptrVars, ctxVars, output_fd, acq, rel,
                   encoded_frames, keyframes, kfOk, exit_status, failedStep>>

\* the for condition frame_num < max_frames is false
LoopExit ==
    /\ pc = "loop"
    /\ ~(frame_num < max_frames)
    /\ pc' = "loop_end"
    /\ UNCHANGED <<encoded_frame, bufSize, run2, timestamp, stage, report, out, geomVars, fileVars, callVars, ptrVars, ctxVars, output_fd, acq, rel,
                   countVars, exit_status, failedStep>>

\* Ingest whose failure branch lacks the continue and goes on to the encode
IngestFallsThrough ==
    /\ pc = "ingest"
    /\ called' = called \cup {"ingest"}
    /\ \E ok \in BOOLEAN :
         /\ scenarioD' = (scenarioD /\ (ok <=> ((frame_num + 1) % 3 # 0)))
         /\ stage' = IF ok THEN "ingested" ELSE "idle"
         /\ IF ok
            THEN /\ pc' = "encode"
                 /\ UNCHANGED <<frame_num, failed_frames>>
                 /\ \E t \in 0..MaxClock, t2 \in 0..MaxClock :
                      /\ t2 # t
                      /\ timestamp' = <<t>>
                      /\ run2' = [run2 EXCEPT !.timestamp = <<t2>>]
            ELSE /\ failed_frames' = failed_frames + 1
                 /\ UNCHANGED frame_num
                 /\ pc' = "encode"
                 /\ UNCHANGED timestamp
                 /\ run2' = [run2 EXCEPT !.failed_frames = @ + 1]
    /\ UNCHANGED <<encoded_frame, bufSize, report, out, geomVars, fileVars, ptrVars, ctxVars, output_fd, acq, rel,
                   encoded_frames, keyframes, kfOk, exit_status, failedStep>>

\* Ingest without the failed_frames++ of its failure branch
IngestDropsCount ==
    /\ pc = "ingest"
    /\ called' = called \cup {"ingest"}
    /\ \E ok \in BOOLEAN :
         /\ scenarioD' = (scenarioD /\ (ok <=> ((frame_num + 1) % 3 # 0)))
         /\ stage' = IF ok THEN "ingested" ELSE "idle"
         /\ IF ok
            THEN /\ pc' = "encode"
                 /\ UNCHANGED <<frame_num, failed_frames>>
                 /\ \E t \in 0..MaxClock, t2 \in 0..MaxClock :
                      /\ t2 # t
                      /\ timestamp' = <<t>>
                      /\ run2' = [run2 EXCEPT !.timestamp = <<t2>>]
            ELSE /\ UNCHANGED failed_frames
                 /\ frame_num' = frame_num + 1
                 /\ pc' = "loop"
                 /\ UNCHANGED timestamp
                 /\ run2' = [run2 EXCEPT !.frame_num = @ + 1]
    /\ UNCHANGED <<encoded_frame, bufSize, report, out, geomVars, fileVars, ptrVars, ctxVars, output_fd, acq, rel,
                   encoded_frames, keyframes, kfOk, exit_status, failedStep>>

\* if (!EncodeContextWriteYuvData(...)) { failed_frames++; continue; }
\* (while scenarioD holds no read has failed, so this is ingest call number
\* frame_num + 1)
Ingest ==
    /\ pc = "ingest"
    /\ called' = called \cup {"ingest"}
    /\ \E ok \in BOOLEAN :
         /\ scenarioD' = (scenarioD /\ (ok <=> ((frame_num + 1) % 3 # 0)))
         /\ stage' = IF ok THEN "ingested" ELSE "idle"
         /\ IF ok
            THEN /\ pc' = "encode"
                 /\ UNCHANGED <<frame_num, failed_frames>>
                 /\ \E t \in 0..MaxClock, t2 \in 0..MaxClock :
                      /\ t2 # t
                      /\ timestamp' = <<t>>
                      /\ run2' = [run2 EXCEPT !.timestamp = <<t2>>]
            ELSE /\ failed_frames' = failed_frames + 1
                 /\ frame_num' = frame_num + 1
                 /\ pc' = "loop"
                 /\ UNCHANGED timestamp
                 /\ run2' = [run2 EXCEPT !.failed_frames = @ + 1,
                                         !.frame_num = @ + 1]
    /\ UNCHANGED <<encoded_frame, bufSize, report, out, geomVars, fileVars, ptrVars, ctxVars, output_fd, acq, rel,
                   encoded_frames, keyframes, kfOk, exit_status, failedStep>>

\* Encode whose failure branch leaves the loop (break) instead of continue
EncodeBreaksOnFailure ==
    /\ pc = "encode"
    /\ called' = called \cup {"encode"}
    /\ \E success \in BOOLEAN :
         /\ scenarioD' = (scenarioD /\ success)
         /\ stage' = "idle"
         /\ timestamp' = <<>>
         /\ IF success
            THEN /\ encoded_frames' = encoded_frames + 1
                 /\ keyframes' = IF frame_num % keyframe_interval = 0
                                 THEN keyframes + 1 ELSE keyframes
                 /\ run2' = [run2 EXCEPT
                        !.encoded_frames = @ + 1,
                        !.keyframes = IF run2.frame_num % keyframe_interval = 0
                                      THEN @ + 1 ELSE @,
                        !.timestamp = <<>>]
                 /\ kfOk' = kfOk \cup {i \in {frame_num} : i % keyframe_interval = 0}
                 /\ UNCHANGED <<failed_frames, frame_num>>
                 /\ pc' = "pace"
            ELSE /\ failed_frames' = failed_frames + 1
                 /\ UNCHANGED <<encoded_frames, keyframes, kfOk>>
                 /\ run2' = [run2 EXCEPT !.failed_frames = @ + 1,
                                         !.frame_num = @ + 1,
                                         !.timestamp = <<>>]
                 /\ frame_num' = frame_num + 1
                 /\ pc' = "loop_end"
    /\ UNCHANGED <<encoded_frame, bufSize, report, out, geomVars, fileVars, ptrVars, ctxVars, output_fd, acq, rel,
                   exit_status, failedStep>>

\* the encode step with the keyframe decision taken from the clock reading
EncodeKeyframeByClock ==
    /\ pc = "encode"
    /\ called' = called \cup {"encode"}
    /\ \E success \in BOOLEAN :
         /\ scenarioD' = (scenarioD /\ success)
         /\ stage' = "idle"
         /\ timestamp' = <<>>
         /\ IF success
            THEN /\ encoded_frames' = encoded_frames + 1
                 /\ keyframes' = IF timestamp[1] % keyframe_interval = 0
                                 THEN keyframes + 1 ELSE keyframes
                 /\ run2' = [run2 EXCEPT
                        !.encoded_frames = @ + 1,
                        !.keyframes = IF run2.timestamp[1] % keyframe_interval = 0
                                      THEN @ + 1 ELSE @,
                        !.timestamp = <<>>]
                 /\ kfOk' = kfOk \cup {i \in {frame_num} : i % keyframe_interval = 0}
                 /\ UNCHANGED <<failed_frames, frame_num>>
                 /\ pc' = "pace"
            ELSE /\ failed_frames' = failed_frames + 1
                 /\ UNCHANGED <<encoded_frames, keyframes, kfOk>>
                 /\ run2' = [run2 EXCEPT !.failed_frames = @ + 1,
                                         !.frame_num = @ + 1,
                                         !.timestamp = <<>>]
                 /\ frame_num' = frame_num + 1
                 /\ pc' = "loop"
    /\ UNCHANGED <<encoded_frame, bufSize, report, out, geomVars, fileVars, ptrVars, ctxVars, output_fd, acq, rel,
                   exit_status, failedStep>>

\* success = EncodeContextEncodeFrame(encode_context, output_fd, timestamp);
\* if (success) { encoded_frames++; if (is_keyframe) keyframes++; }
\* else { failed_frames++; continue; }
Encode ==
    /\ pc = "encode"
    /\ called' = called \cup {"encode"}
    /\ \E success \in BOOLEAN :
         /\ scenarioD' = (scenarioD /\ success)
         /\ stage' = "idle"
         /\ timestamp' = <<>>
         /\ IF success
            THEN /\ encoded_frames' = encoded_frames + 1
                 /\ keyframes' = IF is_keyframe(frame_num)
                                 THEN keyframes + 1 ELSE keyframes
                 /\ run2' = [run2 EXCEPT
                        !.encoded_frames = @ + 1,
                        !.keyframes = IF is_keyframe(run2.frame_num)
                                      THEN @ + 1 ELSE @,
                        !.timestamp = <<>>]
                 /\ kfOk' = kfOk \cup {i \in {frame_num} : i % keyframe_interval = 0}
                 /\ UNCHANGED <<failed_frames, frame_num>>
                 /\ pc' = "pace"
            ELSE /\ failed_frames' = failed_frames + 1
                 /\ UNCHANGED <<encoded_frames, keyframes, kfOk>>
                 /\ run2' = [run2 EXCEPT !.failed_frames = @ + 1,
                                         !.frame_num = @ + 1,
                                         !.timestamp = <<>>]
                 /\ frame_num' = frame_num + 1
                 /\ pc' = "loop"
    /\ UNCHANGED <<encoded_frame, bufSize, report, out, geomVars, fileVars, ptrVars, ctxVars, output_fd, acq, rel,
                   exit_status, failedStep>>

\* the end of an encoded iteration without the frame_num++
PaceKeepsIndex ==
    /\ pc = "pace"
    /\ UNCHANGED <<frame_num, run2>>
    /\ pc' = "loop"
    /\ UNCHANGED <<encoded_frame, bufSize, timestamp, stage, report, out, geomVars, fileVars, callVars, ptrVars,
                   ctxVars, output_fd, acq, rel, encoded_frames, keyframes,
                   failed_frames, kfOk, scenarioD, exit_status, failedStep>>

\* usleep(1000) at the end of an iteration whose frame was encoded, then the
\* for statement's frame_num++
Pace ==
    /\ pc = "pace"
    /\ frame_num' = frame_num + 1
    /\ run2' = [run2 EXCEPT !.frame_num = @ + 1]
    /\ pc' = "loop"
    /\ UNCHANGED <<encoded_frame, bufSize, timestamp, stage, report, out, geomVars, fileVars, callVars, ptrVars,
                   ctxVars, output_fd, acq, rel, encoded_frames, keyframes,
                   failed_frames, kfOk, scenarioD, exit_status, failedStep>>

\* ---------------------------------------------------------- main: teardown
\* fps without the encoded_frames > 0 guard
FpsUnguarded(encoded, elapsed) == <<encoded, elapsed>>

\* double fps = encoded_frames > 0 ? encoded_frames / elapsed_time : 0;
Fps(encoded, elapsed) == IF encoded > 0 THEN <<encoded, elapsed>> ELSE <<0, 1>>

\* if (stat(output_file, &st) == 0) { ...
\*   if (st.st_size > 0 && encoded_frames > 0) { bitrate_mbps = ...; printf } }
BitrateReported(statOk, size, encoded) == statOk /\ size > 0 /\ encoded > 0

\* double bitrate_mbps = (st.st_size * 8.0) / (elapsed_time * 1000000);
Bitrate(size, elapsed) == <<size * 8, elapsed * 1000000>>

\* the statistics of lines 271-310 for the given clock and stat results
Statistics(encoded, elapsed, statOk, size) ==
    [elapsed |-> <<elapsed>>,
     fps     |-> Fps(encoded, elapsed),
     stat    |-> IF statOk THEN "ok" ELSE "failed",
     size    |-> IF statOk THEN size ELSE 0,
     bitrate |-> IF BitrateReported(statOk, size, encoded)
                 THEN Bitrate(size, elapsed) ELSE <<>>]

\* LoopEnd without the close(output_fd)
LoopEndKeepsOpen ==
    /\ pc = "loop_end"
    /\ \E elapsed \in 0..MaxElapsed, statOk \in BOOLEAN, size \in 0..MaxSize :
         report' = Statistics(encoded_frames, elapsed, statOk, size)
    /\ \E elapsed2 \in 0..MaxElapsed :
         /\ <<elapsed2>> # report'.elapsed
         /\ run2' = [run2 EXCEPT !.elapsed = <<elapsed2>>]
    /\ UNCHANGED <<output_fd, out>>
    /\ pc' = "cleanup"
    /\ UNCHANGED <<encoded_frame, bufSize, timestamp, stage, geomVars, fileVars, callVars, ptrVars, ctxVars, acq, rel, countVars,
                   exit_status, failedStep>>

\* clock_gettime(&end_time); elapsed_time, fps; close(output_fd); the
\* printed statistics with stat(output_file) and the bitrate
LoopEnd ==
    /\ pc = "loop_end"
    /\ \E elapsed \in 0..MaxElapsed, statOk \in BOOLEAN, size \in 0..MaxSize :
         report' = Statistics(encoded_frames, elapsed, statOk, size)
    /\ \E elapsed2 \in 0..MaxElapsed :
         /\ <<elapsed2>> # report'.elapsed
         /\ run2' = [run2 EXCEPT !.elapsed = <<elapsed2>>]
    /\ output_fd' = "closed"
    /\ out' = [out EXCEPT !.closes = @ + 1]
    /\ pc' = "cleanup"
    /\ UNCHANGED <<encoded_frame, bufSize, timestamp, stage, geomVars, fileVars, callVars, ptrVars, ctxVars, acq, rel, countVars,
                   exit_status, failedStep>>

\* an exit status that reports success whenever the loop was reached
ExitStatusAlwaysZero(encoded) == IF encoded >= 0 THEN 0 ELSE 1

\* if (encoded_frames > 0) return 0; else return 1;
ExitStatus(encoded) == IF encoded > 0 THEN 0 ELSE 1

\* EncodeContextDestroy; GpuContextDestroy; close_yuv_file; return
Cleanup ==
    /\ pc = "cleanup"
    /\ rel' = close_yuv_file(fp, y_data, u_data, v_data,
                  GpuContextDestroy(EncodeContextDestroy(rel)))
    /\ exit_status' = <<ExitStatus(encoded_frames)>>
    /\ run2' = [run2 EXCEPT !.exit_status = <<ExitStatus(run2.encoded_frames)>>]
    /\ pc' = "done"
    /\ UNCHANGED <<encoded_frame, bufSize, timestamp, stage, report, out, geomVars, fileVars, callVars, ptrVars, ctxVars, output_fd, acq,
                   countVars, failedStep>>

Next ==
    \/ OpenYuv
    \/ GpuCreate
    \/ EncCreate
    \/ GetFrame
    \/ OpenOutput
    \/ LoopRead
    \/ LoopExit
    \/ Ingest
    \/ Encode
    \/ Pace
    \/ LoopEnd
    \/ Cleanup

Spec == Init /\ [][Next]_vars

\* ------------------------------------------- the reader on its own streams
\* read_yuv420p_frame called on a stream until it returns non-zero, for
\* every small geometry and stream length; frame_num counts the frames read.
InitRead ==
    /\ pc = "reader"
    /\ width \in 1..MaxW /\ height \in 1..MaxH
    /\ \E n \in 0..MaxBytes :
         stream = [len |-> n, pos |-> 0, eof |-> FALSE, errs |-> 0,
                   bad |-> n, hard |-> 0]
    /\ fp = TRUE /\ y_data = TRUE /\ u_data = TRUE /\ v_data = TRUE
    /\ gpu_context = FALSE /\ encode_context = FALSE
    /\ output_fd = "none"
    /\ acq = [r \in Res |-> 0] /\ rel = [r \in Res |-> 0]
    /\ frame_num = 0 /\ encoded_frames = 0 /\ keyframes = 0 /\ failed_frames = 0
    /\ exit_status = <<>>
    /\ failedStep = "none"
    /\ readCalls = 0
    /\ called = {}
    /\ lastRead = NoRead
    /\ kfOk = {}
    /\ scenarioD = TRUE
    /\ out = [opens |-> 0, closes |-> 0]
    /\ report = NoReport
    /\ stage = "idle"
    /\ timestamp = <<>>
    /\ run2 = NoRun2
    /\ bufSize = alloc_sizes(width, height)
    /\ encoded_frame = FALSE

ReaderCall ==
    /\ pc = "reader"
    /\ \E errPlane \in ErrPlanes :
         LET r == read_yuv420p_frame(stream, width, height, fp, y_data,
                                     u_data, v_data, errPlane)
         IN  /\ r.st.errs - r.st.hard <= MaxIoErrors
             /\ (errPlane # "none") => (r.st.errs > stream.errs)
             /\ stream' = r.st
             /\ readCalls' = readCalls + 1
             /\ called' = called \cup {"read"}
             /\ lastRead' = [ret |-> r.ret, plane |-> r.plane,
                             outcome |-> ReadOutcome(r),
                             asked |-> r.asked, wrote |-> r.wrote]
             /\ frame_num' = IF r.ret = 0 THEN frame_num + 1 ELSE frame_num
             /\ pc' = IF r.ret = 0 THEN "reader" ELSE "reader_done"
    /\ UNCHANGED <<encoded_frame, bufSize, run2, timestamp, stage, report, out, geomVars, ptrVars, ctxVars, output_fd, acq, rel,
                   encoded_frames, keyframes, failed_frames, kfOk, scenarioD,
                   exit_status, failedStep>>

NextRead == ReaderCall

SpecRead == InitRead /\ [][NextRead]_vars

\* ============================================================= properties
\* the bytes of one 3840x2160 frame, width*height*1.5
FullFrame == (3840 * 2160 * 3) \div 2
\* main ran its loop (no setup step failed) and the loop is over
LoopOver == pc \in {"loop_end", "cleanup", "done"} /\ failedStep = "none"
\* the step is a call of read_yuv420p_frame from the loop
ReadStep == pc = "loop" /\ readCalls' = readCalls + 1
\* the step leaves the four counters of the loop alone
CountersKept ==
    /\ frame_num' = frame_num /\ encoded_frames' = encoded_frames
    /\ failed_frames' = failed_frames /\ keyframes' = keyframes
\* the step counts one failed frame and goes on with the next iteration
CountedFailed ==
    /\ failed_frames' = failed_frames + 1 /\ frame_num' = frame_num + 1
    /\ encoded_frames' = encoded_frames /\ keyframes' = keyframes
    /\ pc' = "loop"

\* C1: at every iteration boundary of the encode loop and after the run,
\* attempted (frame_num, the iterations whose read was not the end of the
\* stream) equals succeeded (encoded_frames) plus failed (failed_frames),
\* whatever the read, ingest and encode outcomes were.
C1_AttemptedIsSum ==
    (pc \in {"loop", "loop_end", "cleanup", "done"})
        => (frame_num = encoded_frames + failed_frames)

C1_Witness ==
    /\ pc = "done" /\ failedStep = "none"
    /\ encoded_frames >= 2 /\ failed_frames >= 2
    /\ lastRead.outcome = "EndOfStream"

\* C2: a frame error never ends the loop.  Each step that counts a failed
\* frame counts exactly one and returns to the head of the loop; the loop is
\* left only at the end of the stream or at the frame limit; without I/O
\* errors a stream of N full frames is processed to min(N, max_frames)
\* iterations whatever ingest and encode return; and when exactly every
\* third ingest call fails the run ends with 100 iterations, 33 failed and
\* 67 succeeded.
C2_FailureStep ==
    (failed_frames' # failed_frames) => CountedFailed

C2_LoopLeft ==
    LoopOver =>
        /\ (lastRead.outcome = "EndOfStream" \/ frame_num = 100)
        /\ (stream.errs = 0) =>
              frame_num = Min(stream.len \div FullFrame, 100)
        /\ scenarioD =>
              (frame_num = 100 /\ failed_frames = 33 /\ encoded_frames = 67)

C2_FrameErrorNeverEndsLoop == [][C2_FailureStep]_vars /\ []C2_LoopLeft

C2_Witness ==
    /\ pc = "done" /\ scenarioD
    /\ frame_num = 100 /\ failed_frames = 33 /\ encoded_frames = 67

\* C3 as stated: a read that comes back short in the U or V plane is counted
\* as a failed frame and the loop goes on, also at the true end of the stream.
C3_Original ==
    [][(ReadStep /\ lastRead'.plane \in {"U", "V"}) => CountedFailed]_vars

\* C3 amended: a read that comes back short in the U or V plane is classified
\* by the end-of-file indicator of the stream.  When the stream ended inside
\* the chroma planes (no I/O error struck the call) the loop is left as at
\* the end of the stream and no counter changes; only when an I/O error made
\* the read short is the iteration counted as failed and the loop goes on.
C3_ChromaShortStep ==
    (ReadStep /\ lastRead'.plane \in {"U", "V"}) =>
        /\ stream'.eof <=> (stream'.errs = stream.errs)
        /\ stream'.eof => (pc' = "loop_end" /\ CountersKept)
        /\ ~stream'.eof => CountedFailed

C3_ChromaShortByFeof == [][C3_ChromaShortStep]_vars

C3_Witness ==
    /\ pc = "loop_end"
    /\ lastRead.plane = "V" /\ lastRead.outcome = "EndOfStream"
    /\ stream.errs = 0
    /\ stream.pos = stream.len
    /\ frame_num = 3 /\ failed_frames = 0

\* C4 as stated: a read that comes back short in the Y plane always ends the
\* loop at once and changes no counter, whatever made the read short.
C4_Original ==
    [][(ReadStep /\ lastRead'.plane = "Y") => (pc' = "loop_end" /\ CountersKept)]_vars

\* C4 amended: a read that comes back short in the Y plane because the
\* stream ended (end-of-file indicator set), with no byte or with part of the
\* plane obtained, ends the loop at once and changes no counter; a read that
\* comes back short in the Y plane because of an I/O error (end-of-file
\* indicator clear) is counted as a failed frame and the loop goes on.
C4_LumaShortStep ==
    (ReadStep /\ lastRead'.plane = "Y") =>
        /\ stream'.eof <=> (stream'.errs = stream.errs)
        /\ stream'.eof => (pc' = "loop_end" /\ CountersKept)
        /\ ~stream'.eof => CountedFailed

C4_LumaShortByFeof == [][C4_LumaShortStep]_vars

C4_Witness ==
    /\ pc = "loop_end"
    /\ lastRead.plane = "Y" /\ lastRead.outcome = "EndOfStream"
    /\ stream.pos = stream.len /\ stream.len % FullFrame = 1
    /\ frame_num = encoded_frames + failed_frames /\ frame_num >= 1

\* C5 as stated: for every w, h > 0 and K >= 0 a stream of exactly
\* K*(w*h*1.5) bytes yields K successful reads, then one EndOfStream.
C5_Original ==
    (pc = "reader_done" /\ stream.errs = 0) =>
        \A K \in 0..MaxBytes :
            (2 * stream.len = 3 * K * width * height) =>
                /\ frame_num = K
                /\ readCalls = K + 1
                /\ lastRead.outcome = "EndOfStream"

\* C5 amended: with y = w*h and chroma = (w*h)/4 by integer division, a
\* successful read consumes y, then chroma, then chroma bytes in that order,
\* and a stream of exactly K*(y + 2*chroma) bytes read without I/O error
\* yields K successful reads followed by one EndOfStream; y + 2*chroma is
\* w*h*1.5 exactly when w*h is a multiple of 4.
C5_FullFrames ==
    LET y == width * height
        c == (width * height) \div 4
        f == y + c + c
        tail == stream.len % f
    IN  (stream.errs = 0) =>
          /\ (pc = "reader") => (stream.pos = frame_num * f /\ ~stream.eof)
          /\ (pc = "reader_done") =>
                /\ frame_num = stream.len \div f
                /\ readCalls = frame_num + 1
                /\ lastRead.outcome = "EndOfStream"
                /\ stream.pos = stream.len
                /\ lastRead.plane = IF tail < y THEN "Y"
                                    ELSE IF tail < y + c THEN "U" ELSE "V"

C5_Witness ==
    /\ pc = "reader_done" /\ stream.errs = 0
    /\ width = 4 /\ height = 2 /\ stream.len = 36
    /\ frame_num = 3 /\ readCalls = 4
    /\ lastRead.outcome = "EndOfStream"

\* C6: keyframes counts exactly the frame indices i with i mod 30 = 0 whose
\* encode succeeded, all of them below the number of attempted frames (the
\* frame just encoded counts as attempted while its iteration sleeps); the
\* frame index advances on every iteration whose read was not the end of the
\* stream, whatever the iteration's own outcome was.
C6_KeyframeCadence ==
    /\ keyframes = Cardinality(kfOk)
    /\ kfOk \subseteq {i \in 0..(readCalls - 1) : i % 30 = 0}
    /\ (pc = "loop") => (frame_num = readCalls)
    /\ (pc \in {"ingest", "encode", "pace"}) => (frame_num = readCalls - 1)
    /\ LoopOver =>
          frame_num = readCalls - (IF lastRead.outcome = "EndOfStream" THEN 1 ELSE 0)

C6_Witness ==
    /\ pc = "done"
    /\ kfOk = {30, 90} /\ keyframes = 2
    /\ frame_num = 100 /\ stream.errs = 1
    /\ encoded_frames = 50

\* C7: the end of the stream ends the loop at once and is no error: the read
\* that reports it changes no counter, after it no read, ingest or encode
\* call is made and no counter changes, and a stream of K < max_frames full
\* frames read without I/O error ends the run with attempted = K after K+1
\* reads.
C7_AfterEof ==
    stream.eof =>
        /\ pc \in {"loop_end", "cleanup", "done"}
        /\ lastRead.outcome = "EndOfStream"

C7_EofStep ==
    /\ (ReadStep /\ stream'.eof) => (pc' = "loop_end" /\ CountersKept)
    /\ stream.eof => (readCalls' = readCalls /\ called' = called /\ CountersKept)

C7_ShortStream ==
    (pc = "done" /\ failedStep = "none" /\ stream.errs = 0) =>
        \A K \in 0..99 :
            (stream.len = K * FullFrame) => (frame_num = K /\ readCalls = K + 1)

C7_EndOfStreamEndsLoop ==
    []C7_AfterEof /\ [][C7_EofStep]_vars /\ []C7_ShortStream

C7_Witness ==
    /\ pc = "done" /\ failedStep = "none" /\ stream.errs = 0
    /\ stream.len = 3 * FullFrame
    /\ frame_num = 3 /\ readCalls = 4
    /\ failed_frames = 0

\* C8: main returns 0 iff at least one frame was encoded, 1 iff the loop ran
\* and no frame was encoded, and -1 iff a setup step failed; -1 is returned
\* only when no frame was read, ingested or encoded.
C8_ExitStatus ==
    /\ (pc # "done") <=> (exit_status = <<>>)
    /\ (pc = "done") =>
          /\ exit_status \in {<<-1>>, <<0>>, <<1>>}
          /\ (exit_status = <<0>>) <=> (encoded_frames > 0)
          /\ (exit_status = <<1>>) <=> (failedStep = "none" /\ encoded_frames = 0)
          /\ (exit_status = <<-1>>) <=> (failedStep # "none")
          /\ (exit_status = <<-1>>) =>
                (called = {} /\ readCalls = 0 /\ frame_num = 0 /\ failed_frames = 0)

C8_Witness ==
    /\ pc = "done" /\ exit_status = <<1>>
    /\ frame_num = 100 /\ failed_frames = 100

\* the resources main holds when the given setup step fails
HeldAt(step) ==
    CASE step = "fopen"  -> {}
      [] step = "gpu"    -> {"fp", "y", "u", "v"}
      [] step = "enc"    -> {"fp", "y", "u", "v", "gpu"}
      [] step = "frame"  -> {"fp", "y", "u", "v", "gpu", "enc"}
      [] step = "output" -> {"fp", "y", "u", "v", "gpu", "enc"}

\* C9: when a setup step fails main returns at once: every resource acquired
\* up to that step has been released, nothing else has been released, the
\* output file is not open and no read, ingest or encode call was made.
C9_SetupAbort ==
    /\ \A r \in Res : rel[r] <= acq[r]
    /\ (failedStep # "none") =>
          /\ pc = "done"
          /\ called = {} /\ readCalls = 0
          /\ output_fd = "none"
          /\ \A r \in Res : acq[r] <= 1 /\ rel[r] = acq[r]
          /\ IF failedStep = "malloc"
             THEN /\ acq["fp"] = 1 /\ acq["gpu"] = 0 /\ acq["enc"] = 0
                  /\ \E r \in {"y", "u", "v"} : acq[r] = 0
             ELSE {r \in Res : acq[r] = 1} = HeldAt(failedStep)

C9_Witness ==
    /\ pc = "done" /\ failedStep = "frame"
    /\ \A r \in Res : acq[r] = 1 /\ rel[r] = 1

\* C10: the input file and the three plane buffers are each released at most
\* once and only if acquired, they stay unreleased while main runs, and on
\* every return of main each one that was acquired has been released exactly
\* once, also when open_yuv_file fails after part of its allocations.
C10_ReleasedOnce ==
    \A r \in {"fp", "y", "u", "v"} :
        /\ acq[r] <= 1
        /\ rel[r] <= acq[r]
        /\ (pc = "done") => (rel[r] = acq[r])
        /\ (pc \notin {"open_yuv", "done"}) => (acq[r] = 1 /\ rel[r] = 0)

C10_Witness ==
    /\ pc = "done" /\ failedStep = "malloc"
    /\ acq["y"] = 1 /\ rel["y"] = 1
    /\ acq["u"] = 0 /\ rel["u"] = 0
    /\ acq["v"] = 1 /\ rel["v"] = 1
    /\ rel["fp"] = 1

\* C11: the output file is opened once, before the first iteration, and
\* closed exactly once, after the loop; while the loop runs (and so at every
\* encode call) it is open and the encode context exists; it is never closed
\* more often than opened; and the step that makes an encode call is taken
\* with the file open and the context not destroyed.
C11_SinkState ==
    /\ out.opens <= 1 /\ out.closes <= out.opens
    /\ (output_fd = "open") <=> (out.opens = 1 /\ out.closes = 0)
    /\ (output_fd = "closed") <=> (out.closes = 1)
    /\ (pc \in {"loop", "ingest", "encode", "loop_end"}) =>
          (output_fd = "open" /\ encode_context /\ acq["enc"] = 1 /\ rel["enc"] = 0)
    /\ (pc = "done" /\ failedStep = "none") => (out.opens = 1 /\ out.closes = 1)
    /\ (called # {}) => (out.opens = 1)

C11_SinkStep ==
    /\ (pc = "encode") => (output_fd = "open" /\ rel["enc"] = 0)
    /\ (output_fd # "open" \/ rel["enc"] > 0) => (called' = called /\ CountersKept)
    /\ (out.opens' # out.opens) => (pc = "open_output" /\ called = {} /\ frame_num = 0)
    /\ (out.closes' # out.closes) => (pc = "loop_end" /\ pc' = "cleanup")

C11_SinkOpenAroundLoop == []C11_SinkState /\ [][C11_SinkStep]_vars

C11_Witness ==
    /\ pc = "done" /\ failedStep = "none"
    /\ output_fd = "closed" /\ out.opens = 1 /\ out.closes = 1
    /\ "encode" \in called /\ encoded_frames >= 1

\* a double given as <<numerator, denominator>> is the number 0
IsZero(d) == Len(d) = 2 /\ d[1] = 0 /\ d[2] # 0

\* C12: once the statistics are computed, fps is 0 whenever no frame was
\* encoded, and a bitrate is reported exactly when stat succeeded, the output
\* file is not empty and at least one frame was encoded; in every other state
\* (before the statistics, after a failed setup step, no frame encoded, empty
\* or unreadable output file) no bitrate is reported.
C12_FpsAndBitrate ==
    /\ (report.bitrate # <<>>) =>
          /\ encoded_frames > 0 /\ report.size > 0 /\ report.stat = "ok"
          /\ pc \in {"cleanup", "done"} /\ failedStep = "none"
          /\ report.bitrate = <<8 * report.size, 1000000 * report.elapsed[1]>>
    /\ (pc \in {"cleanup", "done"} /\ failedStep = "none") =>
          /\ report.elapsed # <<>>
          /\ (encoded_frames = 0) => IsZero(report.fps)
          /\ (encoded_frames > 0) => (report.fps = <<encoded_frames, report.elapsed[1]>>)
          /\ (encoded_frames > 0 /\ report.size > 0) => (report.bitrate # <<>>)
    /\ (pc \notin {"cleanup", "done"} \/ failedStep # "none") => (report = NoReport)

C12_Witness ==
    /\ pc = "done" /\ failedStep = "none"
    /\ encoded_frames = 0 /\ frame_num > 0
    /\ report.elapsed = <<0>> /\ IsZero(report.fps)
    /\ report.stat = "ok" /\ report.size > 0 /\ report.bitrate = <<>>

\* C13: in an iteration the calls are made in the order read, ingest, encode
\* and frames do not overlap.  The ingest call is reached only with this
\* iteration's read returned 0, the encode call only with this iteration's
\* ingest returned true; a read is made only at the head of the loop, when
\* every earlier iteration is complete (frame_num iterations, frame_num
\* reads); the step from the ingest call makes no read and goes to the encode
\* call iff the ingest succeeded, else to the next iteration; the step from
\* the encode call makes no read and completes the iteration, after the
\* pacing sleep when the frame was encoded.
C13_Stage ==
    /\ (pc = "loop") => (stage = "idle" /\ readCalls = frame_num)
    /\ (pc = "ingest") =>
          (stage = "read" /\ lastRead.ret = 0 /\ readCalls = frame_num + 1)
    /\ (pc = "encode") =>
          (stage = "ingested" /\ lastRead.ret = 0 /\ readCalls = frame_num + 1)
    /\ (pc = "pace") =>
          (stage = "idle" /\ lastRead.ret = 0 /\ readCalls = frame_num + 1)

C13_Step ==
    /\ (readCalls' # readCalls) =>
          /\ readCalls' = readCalls + 1
          /\ pc = "loop" /\ stage = "idle" /\ readCalls = frame_num
          /\ (pc' = "ingest") <=> (lastRead'.ret = 0)
    /\ (pc = "ingest") =>
          /\ readCalls' = readCalls
          /\ (pc' = "encode" /\ stage' = "ingested" /\ frame_num' = frame_num)
             \/ (pc' = "loop" /\ stage' = "idle" /\ frame_num' = frame_num + 1)
    /\ (pc = "encode") =>
          /\ readCalls' = readCalls
          /\ (pc' = "pace" /\ frame_num' = frame_num)
             \/ (pc' = "loop" /\ frame_num' = frame_num + 1)
    /\ (pc = "pace") =>
          (readCalls' = readCalls /\ pc' = "loop" /\ frame_num' = frame_num + 1)
    /\ (pc' = "ingest") => (pc = "loop")
    /\ (pc' = "encode") => (pc = "ingest")

C13_ReadIngestEncodeOrder == []C13_Stage /\ [][C13_Step]_vars

C13_Witness ==
    /\ pc = "encode" /\ stage = "ingested"
    /\ frame_num = 2 /\ readCalls = 3
    /\ failed_frames = 1 /\ encoded_frames = 1

\* the number of steps main can still take at most: it falls with the
\* position in main and rises with the iterations left
StepsLeft ==
    CASE pc = "open_yuv"    -> 408
      [] pc = "gpu_create"  -> 407
      [] pc = "enc_create"  -> 406
      [] pc = "get_frame"   -> 405
      [] pc = "open_output" -> 404
      [] pc = "loop"        -> 3 + 4 * (100 - frame_num)
      [] pc = "ingest"      -> 2 + 4 * (100 - frame_num)
      [] pc = "encode"      -> 1 + 4 * (100 - frame_num)
      [] pc = "pace"        -> 4 * (100 - frame_num)
      [] pc = "loop_end"    -> 2
      [] pc = "cleanup"     -> 1
      [] pc = "done"        -> 0

\* C14: provided every call returns, main terminates whatever the read,
\* ingest and encode outcomes are, a read error that persists on every later
\* call included.  Every step of main lowers the number of steps it can
\* still take, which is never negative and is 0 only when main has returned;
\* and the loop makes at most frame_limit iterations and reads.
C14_Bounded ==
    /\ StepsLeft >= 0
    /\ (StepsLeft = 0) <=> (pc = "done" /\ exit_status # <<>>)
    /\ frame_num <= 100 /\ readCalls <= 100 /\ failed_frames <= 100

C14_Terminates == [][StepsLeft' < StepsLeft]_vars /\ []C14_Bounded

C14_Witness ==
    /\ pc = "done" /\ failedStep = "none"
    /\ stream.bad = 0 /\ stream.hard = 100
    /\ frame_num = 100 /\ failed_frames = 100 /\ readCalls = 100

\* C15: the counters (attempted, succeeded, failed, keyframes) and the exit
\* status depend on the read/ingest/encode outcomes alone: a second run that
\* meets the same outcomes at different clock readings (another timestamp for
\* every encoded frame, another elapsed time) has the same counters in every
\* state and ends with the same exit status.
C15_ClocksDiffer ==
    /\ (pc = "encode") => (timestamp # <<>> /\ run2.timestamp # timestamp)
    /\ (report # NoReport) => (run2.elapsed # report.elapsed)

C15_TimingIndependent ==
    /\ C15_ClocksDiffer
    /\ run2.frame_num = frame_num
    /\ run2.encoded_frames = encoded_frames
    /\ run2.failed_frames = failed_frames
    /\ run2.keyframes = keyframes
    /\ run2.exit_status = exit_status

C15_Witness ==
    /\ pc = "done" /\ exit_status = <<0>> /\ run2.exit_status = <<0>>
    /\ run2.elapsed # report.elapsed
    /\ frame_num = 100 /\ run2.frame_num = 100
    /\ keyframes = 2 /\ run2.keyframes = 2
    /\ encoded_frames = 98 /\ failed_frames = 2

\* C16: the plane buffers are sized once and every read fits them: the size
\* every fread of read_yuv420p_frame asks for (width*height for Y,
\* (width*height)/4 for U and for V) is the size the buffer was allocated
\* with for the same width and height, width, height and the buffer sizes
\* never change once the buffers exist, and no read stores more bytes in a
\* buffer than were allocated for it, for every resolution, odd ones included.
Sized ==
    /\ bufSize.y = width * height
    /\ bufSize.u = (width * height) \div 4
    /\ bufSize.v = (width * height) \div 4

C16_Fits ==
    /\ (y_data /\ u_data /\ v_data) => Sized
    /\ lastRead.asked.y \in {0, bufSize.y} /\ lastRead.wrote.y <= bufSize.y
    /\ lastRead.asked.u \in {0, bufSize.u} /\ lastRead.wrote.u <= bufSize.u
    /\ lastRead.asked.v \in {0, bufSize.v} /\ lastRead.wrote.v <= bufSize.v
    /\ (readCalls > 0 /\ fp /\ y_data /\ u_data /\ v_data)
          => lastRead.asked.y = width * height
    /\ (lastRead.plane \in {"U", "V", "none"} /\ readCalls > 0)
          => lastRead.asked.u = (width * height) \div 4
    /\ (lastRead.plane \in {"V", "none"} /\ readCalls > 0)
          => lastRead.asked.v = (width * height) \div 4

C16_SizedOnce ==
    /\ width' = width /\ height' = height
    /\ (y_data /\ u_data /\ v_data) => (bufSize' = bufSize)

C16_BuffersFit == []C16_Fits /\ [][C16_SizedOnce]_vars

\* an odd resolution whose three planes were filled by full-sized reads
C16_Witness ==
    /\ width = 3 /\ height = 3 /\ bufSize = [y |-> 9, u |-> 2, v |-> 2]
    /\ readCalls = 2 /\ frame_num = 2
    /\ lastRead.ret = 0 /\ lastRead.wrote = [y |-> 9, u |-> 2, v |-> 2]

\* C17 as stated: in every state of the encode loop keyframes <= succeeded
\* <= FrameIndex <= frame_limit, failed <= FrameIndex and
\* keyframes <= ceil(FrameIndex / 30).
C17_Original ==
    (pc \in {"loop", "ingest", "encode", "pace"}) =>
        /\ keyframes <= encoded_frames
        /\ encoded_frames <= frame_num
        /\ frame_num <= 100
        /\ failed_frames <= frame_num
        /\ keyframes <= (frame_num + 29) \div 30

\* the iterations whose outcome has been counted: frame_num, and one more
\* while an encoded iteration sleeps before the frame_num++
Counted == IF pc = "pace" THEN frame_num + 1 ELSE frame_num

\* C17: with the iterations counted so far for FrameIndex, in every state
\* keyframes <= succeeded <= counted <= frame_limit, failed <= counted,
\* succeeded + failed = counted and keyframes <= ceil(counted / 30); counted
\* is frame_num except during the pacing sleep that follows a successful
\* encode, where encoded_frames (and keyframes) are already incremented and
\* frame_num is not; no counter ever decreases.
C17_Ordered ==
    /\ keyframes <= encoded_frames
    /\ encoded_frames <= Counted
    /\ Counted <= 100
    /\ failed_frames <= Counted
    /\ encoded_frames + failed_frames = Counted
    /\ keyframes <= (Counted + 29) \div 30
    /\ (pc # "pace") =>
          /\ encoded_frames <= frame_num /\ failed_frames <= frame_num
          /\ keyframes <= (frame_num + 29) \div 30

C17_NoDecrease ==
    /\ frame_num' >= frame_num
    /\ encoded_frames' >= encoded_frames
    /\ failed_frames' >= failed_frames
    /\ keyframes' >= keyframes

C17_CounterOrder == []C17_Ordered /\ [][C17_NoDecrease]_vars

\* frame 30 has just been encoded as the second keyframe; frame_num is still 30
C17_Witness ==
    /\ pc = "pace" /\ frame_num = 30
    /\ keyframes = 2 /\ encoded_frames = 30 /\ failed_frames = 1

\* C18: the output file is created/truncated only after the input file, the
\* three buffers, the GPU context, the encode context and the surface query
\* have all succeeded: the only step that opens it is step 5, taken with all
\* of them held and none released; after a failure of any earlier step, a
\* NULL from EncodeContextGetFrame included (fatal: main returns -1), the
\* output path has never been opened.  It is opened at most once.
C18_Opened ==
    /\ out.opens <= 1
    /\ (out.opens > 0) =>
          /\ encoded_frame /\ failedStep = "none"
          /\ \A r \in Res : acq[r] = 1
    /\ (failedStep \in {"fopen", "malloc", "gpu", "enc", "frame", "output"}) =>
          (out.opens = 0 /\ output_fd = "none" /\ exit_status = <<-1>>)
    /\ (pc \in {"open_yuv", "gpu_create", "enc_create", "get_frame", "open_output"})
          => (out.opens = 0 /\ output_fd = "none")
    /\ (pc = "get_frame" \/ failedStep = "frame") => ~encoded_frame

C18_OpenStep ==
    (out'.opens # out.opens) =>
        /\ pc = "open_output" /\ pc' = "loop"
        /\ fp /\ y_data /\ u_data /\ v_data
        /\ gpu_context /\ encode_context /\ encoded_frame
        /\ \A r \in Res : acq[r] = 1 /\ rel[r] = 0

C18_OutputOpenedLast == []C18_Opened /\ [][C18_OpenStep]_vars

\* the surface query returned NULL: main has returned -1, the output file
\* was never opened, both contexts were created and destroyed
C18_Witness ==
    /\ pc = "done" /\ failedStep = "frame" /\ ~encoded_frame
    /\ exit_status = <<-1>>
    /\ out.opens = 0 /\ output_fd = "none"
    /\ acq["gpu"] = 1 /\ acq["enc"] = 1 /\ rel["gpu"] = 1 /\ rel["enc"] = 1

====
